---- MODULE Spec2Model ----
(***************************************************************************)
(* EduLink student-records service (src/app.py): the students table, the   *)
(* request-logging middleware and the six endpoints, with every request a  *)
(* cooperative task that is suspended only at its awaits.                   *)
(***************************************************************************)
EXTENDS Integers, Sequences, FiniteSets, TLC

\* ---------------------------------------------------------------- bounds
\* Number of requests the service receives in one run.
NReq == 2
\* Student ids the callers use are 0 (invalid) and 1..MaxId.
MaxId == 2

Reqs == 1..NReq

\* ------------------------------------------------- StudentIn field bounds
MinId == 1
MaxNameLen == 200
MaxClassLen == 120

\* --------------------------------------------------------- text and dates
RECURSIVE Rep(_, _)
\* The string of n copies of the character c.
Rep(c, n) ==
    IF n = 0 THEN ""
    ELSE IF n % 2 = 0 THEN LET h == Rep(c, n \div 2) IN h \o h
    ELSE c \o Rep(c, n - 1)

DigitChars == <<"0", "1", "2", "3", "4", "5", "6", "7", "8", "9">>

IsDigit(c) == \E i \in 1..10 : DigitChars[i] = c

DigitVal(c) == (CHOOSE i \in 1..10 : DigitChars[i] = c) - 1

\* The value no calendar date has (datetime.date has no year 0).
NoDate == [y |-> 0, m |-> 0, d |-> 0]

IsLeap(y) == (y % 4 = 0 /\ y % 100 # 0) \/ y % 400 = 0

DaysIn(y, m) ==
    IF m = 2 THEN (IF IsLeap(y) THEN 29 ELSE 28)
    ELSE IF m \in {4, 6, 9, 11} THEN 30 ELSE 31

\* The wire text of a date is a sequence of characters; only YYYY-MM-DD with
\* an existing day parses.
ParseDate(t) ==
    IF /\ Len(t) = 10
       /\ t[5] = "-" /\ t[8] = "-"
       /\ \A k \in {1, 2, 3, 4, 6, 7, 9, 10} : IsDigit(t[k])
    THEN LET y == DigitVal(t[1]) * 1000 + DigitVal(t[2]) * 100
                  + DigitVal(t[3]) * 10 + DigitVal(t[4])
             m == DigitVal(t[6]) * 10 + DigitVal(t[7])
             d == DigitVal(t[9]) * 10 + DigitVal(t[10])
         IN  IF y >= 1 /\ m \in 1..12 /\ d >= 1 /\ d <= DaysIn(y, m)
             THEN [y |-> y, m |-> m, d |-> d]
             ELSE NoDate
    ELSE NoDate

\* The decimal digit of n at the place of weight w (1, 10, 100, 1000).
Digit(n, w) == DigitChars[((n \div w) % 10) + 1]

\* date.isoformat(): zero-padded YYYY-MM-DD.
IsoFormat(dt) ==
    << Digit(dt.y, 1000), Digit(dt.y, 100), Digit(dt.y, 10), Digit(dt.y, 1), "-",
       Digit(dt.m, 10), Digit(dt.m, 1), "-", Digit(dt.d, 10), Digit(dt.d, 1) >>

\* ------------------------------------------------------------ the schemas
\* StudentIn with the lower bound on id off by one (ge=0).
StudentInValidLoose(b) ==
    /\ b.id >= MinId - 1
    /\ Len(b.name) >= 1 /\ Len(b.name) <= MaxNameLen
    /\ Len(b.enrolled_class) >= 1 /\ Len(b.enrolled_class) <= MaxClassLen
    /\ ParseDate(b.date_joined) # NoDate

\* StudentIn: the declared field constraints on a request body.
StudentInValid(b) ==
    /\ b.id >= MinId
    /\ Len(b.name) >= 1 /\ Len(b.name) <= MaxNameLen
    /\ Len(b.enrolled_class) >= 1 /\ Len(b.enrolled_class) <= MaxClassLen
    /\ ParseDate(b.date_joined) # NoDate

\* The validated StudentIn model: the four declared fields, the date parsed;
\* any other field of the body is dropped.
StudentIn(b) ==
    [id |-> b.id, name |-> b.name, enrolled_class |-> b.enrolled_class,
     date_joined |-> ParseDate(b.date_joined)]

\* StudentORM(...) as add_student builds it: created_at is not set yet (0).
StudentORM(s) ==
    [id |-> s.id, name |-> s.name, enrolled_class |-> s.enrolled_class,
     date_joined |-> s.date_joined, created_at |-> 0]

\* created_at taken from the body when the caller sends one.
CreatedAtFromBody(b, clock) == IF b.created_at # <<>> THEN b.created_at[1] ELSE clock

\* created_at of a new row: the column default func.now(), whatever the body b
\* of the request held.
CreatedAt(b, clock) == clock

\* The row the INSERT of object o writes, for the request with body b.
Insert(o, b, clock) == [o EXCEPT !.created_at = CreatedAt(b, clock)]

\* StudentOut.model_validate(row), serialised: the date back in ISO text.
StudentOut(row) ==
    [id |-> row.id, name |-> row.name, enrolled_class |-> row.enrolled_class,
     date_joined |-> IsoFormat(row.date_joined), created_at |-> row.created_at]

\* -------------------------------------------------------- table operators
HasId(table, i) == \E k \in 1..Len(table) : table[k].id = i

RowOf(table, i) == table[CHOOSE k \in 1..Len(table) : table[k].id = i]

\* A students table without the primary key.
PkNever(table, row) == FALSE

\* The primary-key constraint on students.id, checked by the INSERT.
PkViolation(table, row) == HasId(table, row.id)

RECURSIVE OrderById(_)
\* ORDER BY students.id (ascending).
OrderById(rows) ==
    IF rows = <<>> THEN <<>>
    ELSE LET k == CHOOSE j \in 1..Len(rows) :
                    \A l \in 1..Len(rows) :
                        rows[j].id < rows[l].id \/ (rows[j].id = rows[l].id /\ j <= l)
         IN  <<rows[k]>> \o OrderById(SubSeq(rows, 1, k - 1) \o SubSeq(rows, k + 1, Len(rows)))

\* The select without its order_by: the rows as the table holds them.
SelectAllUnordered(table) == table

\* The rows select(StudentORM).order_by(StudentORM.id) returns.
SelectAll(table) == OrderById(table)

\* DELETE FROM students WHERE id = i, applied to the table.
DeleteWhere(table, ids) ==
    LET Keep(row) == row.id \notin ids IN SelectSeq(table, Keep)

RECURSIVE MapOut(_)
MapOut(rows) ==
    IF rows = <<>> THEN <<>> ELSE <<StudentOut(Head(rows))>> \o MapOut(Tail(rows))

\* The existence reads of the three handlers (scalar_one_or_none() is truthy).
GetExisting(table, i) == HasId(table, i)

\* add_student without its duplicate check.
AddExistingNever(table, i) == FALSE

AddExisting(table, i) == HasId(table, i)

\* delete_student without its not-found check.
DeleteExistingAlways(table, i) == TRUE

DeleteExisting(table, i) == HasId(table, i)

\* The status field not following db_ok.
HealthStatusHealthy(db_ok) == "healthy"

\* The health body's two fields, both computed from db_ok.
HealthStatus(db_ok) == IF db_ok THEN "healthy" ELSE "degraded"

HealthDb(db_ok) == IF db_ok THEN "ok" ELSE "error"

\* ------------------------------------------------------------ the requests
Date0817 == <<"2", "0", "2", "5", "-", "0", "8", "-", "1", "7">>
Date0229 == <<"2", "0", "2", "4", "-", "0", "2", "-", "2", "9">>
Date0230 == <<"2", "0", "2", "5", "-", "0", "2", "-", "3", "0">>

\* A body with the four declared fields; created_at is <<>> when the caller
\* sends none and <<t>> when the caller sends one.
Body(i, n, c, d, t) ==
    [id |-> i, name |-> n, enrolled_class |-> c, date_joined |-> d, created_at |-> t]

AdaBody(i) == Body(i, "Ada", "CS101", Date0817, <<>>)

\* Longest admissible name and class, a leap day, and a caller-sent created_at.
EdgeBody == Body(1, Rep("n", MaxNameLen), Rep("c", MaxClassLen), Date0229, <<-7>>)

ValidBodies == {AdaBody(i) : i \in 1..MaxId} \cup {EdgeBody}

InvalidBodies ==
    { Body(0, "Ada", "CS101", Date0817, <<>>),
      Body(1, "", "CS101", Date0817, <<>>),
      Body(1, Rep("n", MaxNameLen + 1), "CS101", Date0817, <<>>),
      Body(1, "Ada", "", Date0817, <<>>),
      Body(1, "Ada", Rep("c", MaxClassLen + 1), Date0817, <<>>),
      Body(1, "Ada", "CS101", Date0230, <<>>) }

Bodies == ValidBodies \cup InvalidBodies

\* The bodies StudentIn accepts, and those it rejects.
Admitted == {b \in Bodies : StudentInValid(b)}

Rejected == Bodies \ Admitted

NoBody == Body(0, "", "", <<>>, <<>>)

Request(k, i, b) == [kind |-> k, id |-> i, body |-> b]

NoRequest == Request("none", 0, NoBody)

\* A row no session holds.
NoRow == [id |-> 0, name |-> "", enrolled_class |-> "", date_joined |-> NoDate,
          created_at |-> 0]

VARIABLES
    students,   \* the students table: its rows in insertion order
    now,        \* the database clock func.now() reads
    pc,         \* pc[r]: where request r is suspended
    req,        \* req[r]: the request as received
    obj,        \* obj[r]: the StudentORM object of add_student's session
    txn,        \* txn[r]: ids whose rows r's open transaction has deleted
    status,     \* status[r]: the response's status code, 0 while there is none
    resp,       \* resp[r]: the response body
    exc,        \* exc[r]: the exception the handler raised, "none" if none
    log         \* log[r]: the log entries written on behalf of r, in order

vars == <<students, now, pc, req, obj, txn, status, resp, exc, log>>

\* Tables an earlier run of the service may have left behind: create_all keeps
\* an existing table and its rows.
RECURSIVE Perms(_)
Perms(S) ==
    IF S = {} THEN {<<>>}
    ELSE UNION { { <<x>> \o p : p \in Perms(S \ {x}) } : x \in S }

PersistedTables ==
    UNION { { [k \in 1..Len(p) |-> Insert(StudentORM(StudentIn(AdaBody(p[k]))), AdaBody(p[k]), k)] :
              p \in Perms(S) } : S \in SUBSET (1..MaxId) }

Init ==
    /\ students \in PersistedTables
    /\ now = Len(students) + 1
    /\ pc = [r \in Reqs |-> "idle"]
    /\ req = [r \in Reqs |-> NoRequest]
    /\ obj = [r \in Reqs |-> NoRow]
    /\ txn = [r \in Reqs |-> {}]
    /\ status = [r \in Reqs |-> 0]
    /\ resp = [r \in Reqs |-> <<>>]
    /\ exc = [r \in Reqs |-> "none"]
    /\ log = [r \in Reqs |-> <<>>]

\* ----------------------------------------------------------- log_requests
\* The code between two awaits runs uninterrupted, and everything a request
\* does outside its database calls touches only that request: the middleware's
\* lines are taken together with the handler step they surround.

\* Line 70, before call_next.
Incoming == <<"Incoming request">>

\* Line 72, after call_next returned a response.
LogResponse(code) == <<"Response status", code>>

\* A request arrives; requests are numbered in the order they arrive.
Arrive(r, q) ==
    /\ pc[r] = "idle"
    /\ \A p \in 1..(r - 1) : pc[p] # "idle"
    /\ req' = [req EXCEPT ![r] = q]

\* The handler awaits the database: r is suspended at nextpc.
Suspends(r, nextpc, lines) ==
    /\ pc' = [pc EXCEPT ![r] = nextpc]
    /\ log' = [log EXCEPT ![r] = @ \o lines]
    /\ UNCHANGED <<status, resp, exc>>

\* The handler returns, or raises an exception the framework turns into a
\* response (e): call_next returns it and log_requests logs its status.
Responds(r, code, body, e, lines) ==
    /\ status' = [status EXCEPT ![r] = code]
    /\ resp' = [resp EXCEPT ![r] = body]
    /\ exc' = [exc EXCEPT ![r] = e]
    /\ log' = [log EXCEPT ![r] = Append(@ \o lines, LogResponse(code))]
    /\ pc' = [pc EXCEPT ![r] = "done"]

\* The handler raises an exception no handler is registered for: call_next
\* re-raises it inside log_requests, which is left at line 71, and the server
\* answers 500.
Unhandled(r, e, lines) ==
    /\ status' = [status EXCEPT ![r] = 500]
    /\ resp' = [resp EXCEPT ![r] = "Internal Server Error"]
    /\ exc' = [exc EXCEPT ![r] = e]
    /\ log' = [log EXCEPT ![r] = @ \o lines]
    /\ pc' = [pc EXCEPT ![r] = "done"]

\* Request r waits while another open transaction has deleted the row of id i.
RowLocked(r, i) == \E p \in Reqs \ {r} : i \in txn[p]

\* ------------------------------------------------------------------- root
Root(r) ==
    /\ Arrive(r, Request("root", 0, NoBody))
    /\ Responds(r, 200, [message |-> "EduLink Backend is running"], "none",
                <<Incoming, <<"Root endpoint accessed">>>>)
    /\ UNCHANGED <<students, now, obj, txn>>

\* ----------------------------------------------------------- get_students
GetStudents(r) ==
    /\ Arrive(r, Request("list", 0, NoBody))
    /\ LET lines == <<Incoming, <<"Fetching list of students from DB">>>>
       IN  \E fault \in BOOLEAN :
              IF fault THEN Unhandled(r, "OperationalError", lines)
              ELSE Responds(r, 200, [students |-> MapOut(SelectAll(students))], "none", lines)
    /\ UNCHANGED <<students, now, obj, txn>>

\* ------------------------------------------------------------ get_student
GetStudent(r) ==
    /\ \E i \in 1..MaxId :
          /\ Arrive(r, Request("get", i, NoBody))
          /\ LET lines == <<Incoming, <<"Fetching student">>>>
             IN  \E fault \in BOOLEAN :
                    IF fault THEN Unhandled(r, "OperationalError", lines)
                    ELSE IF ~GetExisting(students, i)
                         THEN Responds(r, 404, [detail |-> "Student not found"],
                                       "HTTPException", lines)
                         ELSE Responds(r, 200, StudentOut(RowOf(students, i)), "none", lines)
    /\ UNCHANGED <<students, now, obj, txn>>

\* ------------------------------------------------------------ add_student
\* The body fails StudentIn: the handler is not called.
AddStudentRejected(r) ==
    /\ \E b \in Rejected : Arrive(r, Request("add", 0, b))
    /\ Responds(r, 422, [detail |-> "validation error"], "RequestValidationError",
                <<Incoming>>)
    /\ UNCHANGED <<students, now, obj, txn>>

\* Lines 107-118: the existence read, then the 409 or the new object.
AddStudentSelect(r) ==
    /\ \E b \in Admitted :
          /\ Arrive(r, Request("add", 0, b))
          /\ LET lines == <<Incoming, <<"Adding new student">>>>
             IN  \E fault \in BOOLEAN :
                    IF fault
                    THEN Unhandled(r, "OperationalError", lines) /\ UNCHANGED obj
                    ELSE IF AddExisting(students, StudentIn(b).id)
                         THEN /\ Responds(r, 409,
                                          [detail |-> "Student with this ID already exists"],
                                          "HTTPException", lines)
                              /\ UNCHANGED obj
                         ELSE /\ obj' = [obj EXCEPT ![r] = StudentORM(StudentIn(b))]
                              /\ Suspends(r, "add_commit", lines)
    /\ UNCHANGED <<students, now, txn>>

\* db.add(obj); await db.commit(): the INSERT is flushed and committed.
AddStudentCommit(r) ==
    /\ pc[r] = "add_commit"
    /\ ~RowLocked(r, obj[r].id)
    /\ \E fault \in BOOLEAN :
          IF fault
          THEN Unhandled(r, "OperationalError", <<>>) /\ UNCHANGED <<students, now>>
          ELSE IF PkViolation(students, obj[r])
               THEN Unhandled(r, "IntegrityError", <<>>) /\ UNCHANGED <<students, now>>
               ELSE /\ students' = Append(students, Insert(obj[r], req[r].body, now))
                    /\ now' = now + 1
                    /\ Suspends(r, "add_refresh", <<>>)
    /\ UNCHANGED <<req, obj, txn>>

\* await db.refresh(obj): the row is read back by primary key.
AddStudentRefresh(r) ==
    /\ pc[r] = "add_refresh"
    /\ \E fault \in BOOLEAN :
          IF fault THEN Unhandled(r, "OperationalError", <<>>) /\ UNCHANGED obj
          ELSE IF ~HasId(students, obj[r].id)
               THEN Unhandled(r, "InvalidRequestError", <<>>) /\ UNCHANGED obj
               ELSE /\ obj' = [obj EXCEPT ![r] = RowOf(students, obj[r].id)]
                    /\ Responds(r, 201,
                                [message |-> "Student added successfully!",
                                 student |-> StudentOut(RowOf(students, obj[r].id))],
                                "none", <<>>)
    /\ UNCHANGED <<students, now, req, txn>>

\* --------------------------------------------------------- delete_student
\* Lines 126-129: the existence read, then the 404 or the DELETE.
DeleteStudentSelect(r) ==
    /\ \E i \in 1..MaxId :
          /\ Arrive(r, Request("delete", i, NoBody))
          /\ LET lines == <<Incoming, <<"Deleting student">>>>
             IN  \E fault \in BOOLEAN :
                    IF fault THEN Unhandled(r, "OperationalError", lines)
                    ELSE IF ~DeleteExisting(students, i)
                         THEN Responds(r, 404, [detail |-> "Student not found"],
                                       "HTTPException", lines)
                         ELSE Suspends(r, "delete_execute", lines)
    /\ UNCHANGED <<students, now, obj, txn>>

\* await db.execute(delete(...)): the matching rows are deleted inside r's
\* transaction, invisible to the others until the commit.
DeleteStudentExecute(r) ==
    /\ pc[r] = "delete_execute"
    /\ ~RowLocked(r, req[r].id)
    /\ \E fault \in BOOLEAN :
          IF fault THEN Unhandled(r, "OperationalError", <<>>) /\ UNCHANGED txn
          ELSE /\ txn' = [txn EXCEPT ![r] =
                            IF HasId(students, req[r].id) THEN {req[r].id} ELSE {}]
               /\ Suspends(r, "delete_commit", <<>>)
    /\ UNCHANGED <<students, now, req, obj>>

\* await db.commit(); a failed commit is rolled back when the session closes.
DeleteStudentCommit(r) ==
    /\ pc[r] = "delete_commit"
    /\ txn' = [txn EXCEPT ![r] = {}]
    /\ \E fault \in BOOLEAN :
          IF fault THEN Unhandled(r, "OperationalError", <<>>) /\ UNCHANGED students
          ELSE /\ students' = DeleteWhere(students, txn[r])
               /\ Responds(r, 204, <<>>, "none", <<>>)
    /\ UNCHANGED <<now, req, obj>>

\* ----------------------------------------------------------- health_check
\* The probe and its except clause.
HealthCheck(r) ==
    /\ Arrive(r, Request("health", 0, NoBody))
    /\ \E fault \in BOOLEAN :
          Responds(r, 200, [status |-> HealthStatus(~fault), db |-> HealthDb(~fault)], "none",
                   <<Incoming, <<"Health check requested">>>>
                   \o (IF fault THEN <<<<"DB health check failed">>>> ELSE <<>>))
    /\ UNCHANGED <<students, now, obj, txn>>

Next ==
    \E r \in Reqs :
        \/ Root(r)
        \/ GetStudents(r)
        \/ GetStudent(r)
        \/ AddStudentRejected(r) \/ AddStudentSelect(r)
        \/ AddStudentCommit(r) \/ AddStudentRefresh(r)
        \/ DeleteStudentSelect(r) \/ DeleteStudentExecute(r) \/ DeleteStudentCommit(r)
        \/ HealthCheck(r)

Spec == Init /\ [][Next]_vars

\* ------------------------------------------------------------ properties
\* A record with id i is in the store.
Stored(i) == \E k \in DOMAIN students : students[k].id = i

\* Request r takes a step.
Steps(r) == pc'[r] # pc[r]

\* Request r is received in this step, as a request of kind k.
Received(r, k) == pc[r] = "idle" /\ pc'[r] # "idle" /\ req'[r].kind = k

\* The body violates one of the declared bounds.
OutOfBounds(b) ==
    \/ b.id < 1
    \/ Len(b.name) = 0 \/ Len(b.name) > 200
    \/ Len(b.enrolled_class) = 0 \/ Len(b.enrolled_class) > 120
    \/ ParseDate(b.date_joined) = NoDate

\* C1: a create request with a valid body whose id is in the store when the
\* handler reads it ends with 409 "Student with this ID already exists", is
\* finished, and leaves the store as it was (the store being reachable).
C1_DuplicateCreateConflicts ==
    [][\A r \in Reqs :
          ( /\ Received(r, "add")
            /\ ~OutOfBounds(req'[r].body)
            /\ Stored(req'[r].body.id)
            /\ exc'[r] # "OperationalError" )
          => /\ status'[r] = 409
             /\ resp'[r] = [detail |-> "Student with this ID already exists"]
             /\ pc'[r] = "done"
             /\ students' = students
             /\ Len(students') = Len(students)]_vars

\* A create was answered 201 and a later create of the same id 409, the record
\* still stored.
C1_Witness ==
    \E r1, r2 \in Reqs :
        /\ req[r1].kind = "add" /\ status[r1] = 201
        /\ req[r2].kind = "add" /\ status[r2] = 409
        /\ req[r2].body.id = req[r1].body.id
        /\ Stored(req[r2].body.id)

\* C2: in every reachable state no two stored records have the same id.
C2_IdsUnique ==
    \A j, k \in DOMAIN students : students[j].id = students[k].id => j = k

\* Two creates of one id were both committed to the database: one was stored
\* and the primary key turned the other away.
C2_Witness ==
    \E r1, r2 \in Reqs :
        /\ req[r1].kind = "add" /\ req[r2].kind = "add"
        /\ req[r1].body.id = req[r2].body.id
        /\ status[r1] = 201 /\ exc[r2] = "IntegrityError"
        /\ Stored(req[r1].body.id)

\* The four caller-provided fields of a response record equal those of body b.
EchoesInput(out, b) ==
    /\ out.id = b.id
    /\ out.name = b.name
    /\ out.enrolled_class = b.enrolled_class
    /\ out.date_joined = b.date_joined

\* created_at is present, and is not what the caller sent.
ServerAssigned(t, b) == t >= 1 /\ (b.created_at # <<>> => t # b.created_at[1])

\* No request deletes id i, and no create other than r stored it.
OnlyCreatedBy(r, i) ==
    \A p \in Reqs \ {r} :
        /\ ~(req[p].kind = "delete" /\ req[p].id = i)
        /\ ~(req[p].kind = "add" /\ req[p].body.id = i /\ status[p] = 201)

\* C3 (round trip): when a create of id i was answered 201 and a get of i 200,
\* with no delete of i, the record the get returns has the id, name,
\* enrolled_class and date_joined text of the create's body and a created_at
\* the server assigned.
C3_GetReturnsInput ==
    \A r1, r2 \in Reqs :
        ( /\ req[r1].kind = "add" /\ status[r1] = 201
          /\ req[r2].kind = "get" /\ status[r2] = 200
          /\ req[r2].id = req[r1].body.id
          /\ OnlyCreatedBy(r1, req[r2].id) )
        => /\ EchoesInput(resp[r2], req[r1].body)
           /\ ServerAssigned(resp[r2].created_at, req[r1].body)

\* C3 (steps): with the store reachable, the commit of a create whose id is
\* not stored appends the record of its body, the read-back of that record
\* answers 201, and a get of a stored id answers 200 with the stored record.
C3_CreateAndGetSteps ==
    \A r \in Reqs :
        /\ ( pc[r] = "add_commit" /\ Steps(r) /\ ~Stored(req[r].body.id)
             /\ exc'[r] # "OperationalError" )
           => /\ pc'[r] = "add_refresh"
              /\ Len(students') = Len(students) + 1
              /\ SubSeq(students', 1, Len(students)) = students
              /\ EchoesInput(StudentOut(students'[Len(students')]), req[r].body)
              /\ ServerAssigned(students'[Len(students')].created_at, req[r].body)
        /\ ( pc[r] = "add_refresh" /\ Steps(r) /\ Stored(req[r].body.id)
             /\ exc'[r] # "OperationalError" )
           => /\ status'[r] = 201
              /\ resp'[r].student.id = req[r].body.id
              /\ resp'[r].student.created_at >= 1
        /\ ( Received(r, "get") /\ Stored(req'[r].id) /\ exc'[r] # "OperationalError" )
           => /\ status'[r] = 200
              /\ \E k \in DOMAIN students :
                    /\ students[k].id = req'[r].id
                    /\ resp'[r] = StudentOut(students[k])

\* C3: for every valid input whose id is not stored a create succeeds with 201
\* and a later get of that id, no delete in between, returns 200 with the
\* input's id, name, enrolled_class and date_joined and a server-assigned
\* created_at the caller cannot set.
C3_CreateThenGet == [](C3_GetReturnsInput) /\ [][C3_CreateAndGetSteps]_vars

\* The body with the longest fields, a leap day and a caller-sent created_at
\* was created and then fetched.
C3_Witness ==
    \E r1, r2 \in Reqs :
        /\ req[r1].kind = "add" /\ status[r1] = 201 /\ req[r1].body = EdgeBody
        /\ req[r2].kind = "get" /\ status[r2] = 200 /\ req[r2].id = EdgeBody.id
        /\ resp[r2].date_joined = Date0229

\* C4: a delete request for an id that is not in the store when the handler
\* reads it ends with 404 "Student not found", is finished, and leaves the
\* store as it was (the store being reachable).
C4_DeleteAbsentNotFound ==
    [][\A r \in Reqs :
          ( /\ Received(r, "delete")
            /\ ~Stored(req'[r].id)
            /\ exc'[r] # "OperationalError" )
          => /\ status'[r] = 404
             /\ resp'[r] = [detail |-> "Student not found"]
             /\ pc'[r] = "done"
             /\ students' = students]_vars

\* A delete of an id the store does not hold was answered 404, other records
\* being stored.
C4_Witness ==
    \E r \in Reqs :
        /\ req[r].kind = "delete" /\ status[r] = 404
        /\ ~Stored(req[r].id)
        /\ Len(students) >= 1

\* C5, as claimed: every delete request that completes with 204 removes
\* exactly one record, the one with the requested id, and leaves every other
\* record as it was, under any interleaving.
C5_DeleteRemovesExactlyOne ==
    [][\A r \in Reqs :
          ( pc[r] = "delete_commit" /\ status'[r] = 204 )
          => \E k \in DOMAIN students :
                /\ students[k].id = req[r].id
                /\ students' = SubSeq(students, 1, k - 1)
                               \o SubSeq(students, k + 1, Len(students))]_vars

\* Strictly ascending ids.
Ascending(outs) == \A j, k \in DOMAIN outs : j < k => outs[j].id < outs[k].id

\* C6: a list request returns exactly the records stored when it reads, each
\* once, ordered by id ascending whatever the order of the table, and leaves
\* the store as it was (the store being reachable).
C6_ListOrderedById ==
    [][\A r \in Reqs :
          ( Received(r, "list") /\ exc'[r] # "OperationalError" )
          => /\ status'[r] = 200
             /\ Ascending(resp'[r].students)
             /\ Len(resp'[r].students) = Len(students)
             /\ {resp'[r].students[k] : k \in DOMAIN resp'[r].students}
                = {StudentOut(students[k]) : k \in DOMAIN students}
             /\ students' = students]_vars

\* A list was answered in ascending order while the table holds a larger id
\* before a smaller one.
C6_Witness ==
    \E r \in Reqs :
        /\ req[r].kind = "list" /\ status[r] = 200
        /\ Len(resp[r].students) = Len(students)
        /\ Len(students) >= 2
        /\ students[1].id > students[2].id
        /\ resp[r].students[1].id < resp[r].students[2].id

\* C7: a create request whose body violates a declared bound is answered 422
\* without the handler being called: it is finished as it is received, its
\* session holds no object and no transaction, and the store is as it was.
C7_InvalidBodyRejected ==
    [][\A r \in Reqs :
          ( Received(r, "add") /\ OutOfBounds(req'[r].body) )
          => /\ status'[r] = 422
             /\ pc'[r] = "done"
             /\ log'[r] = <<Incoming, LogResponse(422)>>
             /\ obj'[r] = NoRow /\ txn'[r] = {}
             /\ students' = students]_vars

\* Bodies with id 0 and with a name of 201 characters were both answered 422.
C7_Witness ==
    \E r1, r2 \in Reqs :
        /\ req[r1].kind = "add" /\ req[r1].body.id = 0 /\ status[r1] = 422
        /\ req[r2].kind = "add" /\ Len(req[r2].body.name) = 201 /\ status[r2] = 422

\* The probe of health request r raised.
ProbeFailed(r) == \E k \in DOMAIN log[r] : log[r][k] = <<"DB health check failed">>

\* C8 (response): a completed health request has status 200 and no exception;
\* its body is healthy/ok when the probe succeeded and degraded/error when it
\* raised.
C8_HealthResponse ==
    \A r \in Reqs :
        ( req[r].kind = "health" /\ pc[r] = "done" )
        => /\ status[r] = 200
           /\ exc[r] = "none"
           /\ resp[r] = IF ProbeFailed(r)
                        THEN [status |-> "degraded", db |-> "error"]
                        ELSE [status |-> "healthy", db |-> "ok"]

\* C8: a health request always completes with 200, healthy/ok or
\* degraded/error with the two fields agreeing, and never changes the store.
C8_HealthAlways200 ==
    /\ [](C8_HealthResponse)
    /\ [][\A r \in Reqs : Received(r, "health")
              => pc'[r] = "done" /\ students' = students]_vars

\* A health request whose probe raised was answered 200 degraded/error, and
\* another whose probe succeeded 200 healthy/ok.
C8_Witness ==
    \E r1, r2 \in Reqs :
        /\ req[r1].kind = "health" /\ status[r1] = 200 /\ ProbeFailed(r1)
        /\ resp[r1].status = "degraded"
        /\ req[r2].kind = "health" /\ status[r2] = 200 /\ ~ProbeFailed(r2)
        /\ resp[r2].status = "healthy"

\* C9, as claimed: every completed request has exactly one pre-dispatch log
\* entry and exactly one post-dispatch entry, which carries the status code of
\* the response, the first before the second.
C9_OnePreOnePostLog ==
    \A r \in Reqs :
        pc[r] = "done"
        => /\ Cardinality({k \in DOMAIN log[r] : log[r][k] = Incoming}) = 1
           /\ Cardinality({k \in DOMAIN log[r] : log[r][k][1] = "Response status"}) = 1
           /\ \E j, k \in DOMAIN log[r] :
                 j < k /\ log[r][j] = Incoming /\ log[r][k] = LogResponse(status[r])

\* C10, as claimed: of two create requests with valid bodies and the same id,
\* each completes with 201 or 409 (the store staying reachable for both).
C10_ConcurrentCreatesClean ==
    \A r1, r2 \in Reqs :
        ( /\ r1 # r2
          /\ req[r1].kind = "add" /\ req[r2].kind = "add"
          /\ ~OutOfBounds(req[r1].body) /\ ~OutOfBounds(req[r2].body)
          /\ req[r1].body.id = req[r2].body.id
          /\ pc[r1] = "done" /\ pc[r2] = "done"
          /\ exc[r1] # "OperationalError" /\ exc[r2] # "OperationalError" )
        => status[r1] \in {201, 409} /\ status[r2] \in {201, 409}

====
